---- MODULE Spec2Model ----
(***************************************************************************)
(* A model of solver.py of scubbo/wordle-solver: the partitioning of a     *)
(* word list by the responses to a guess (determinePartitionSizes), the    *)
(* cost of a partitioning (findCostOfPartitioning) and the ranking loop of *)
(* main (heappush, nsmallest, nlargest).                                   *)
(*                                                                         *)
(* A word is a sequence of letters, a response a sequence of states, a     *)
(* histogram a function from responses to counts.  A cost is the quotient  *)
(* float(unnormalizedCost)/upperBound, kept as the pair                    *)
(* <<unnormalizedCost, upperBound>> and compared by cross-multiplication:  *)
(* for the sizes modelled the double division is exact enough that two     *)
(* quotients compare as their rationals do.                                *)
(***************************************************************************)
EXTENDS Integers, Sequences, FiniteSets, Bags, TLC

VARIABLES
    wordGuess,        \* determinePartitionSizes: the guess
    wordList,         \* determinePartitionSizes: the corpus
    wi,               \* number of words of wordList the outer loop has taken
    idx,              \* number of letters of the current word the inner loop has visited
    states,           \* the states list of the current word
    partitionSizes,   \* the histogram (also findCostOfPartitioning's argument)
    cost,             \* findCostOfPartitioning's result, <<unnormalizedCost, upperBound>>
    ALLOWED_GUESSES,  \* main: the guesses to rank
    WORD_LIST,        \* main: the corpus
    gi,               \* number of guesses main's loop has processed
    guesses_heap,     \* main: the heap of (cost, guess) pairs
    bestK,            \* what main prints under 'Best guesses:'
    worstK,           \* what main prints under 'Worst guesses:'
    invocation,       \* "first" or "second" invocation of main
    firstBestK,       \* the first invocation's bestK
    firstWorstK,      \* the first invocation's worstK
    pc                \* the position in the code

vars == <<wordGuess, wordList, wi, idx, states, partitionSizes, cost,
          ALLOWED_GUESSES, WORD_LIST, gi, guesses_heap, bestK, worstK,
          invocation, firstBestK, firstWorstK, pc>>

partitionVars == <<wordGuess, wordList, wi, idx, states, partitionSizes, cost>>
mainVars == <<ALLOWED_GUESSES, WORD_LIST, gi, guesses_heap, bestK, worstK,
              invocation, firstBestK, firstWorstK>>

----------------------------------------------------------------------------
(* Bounds of the model. *)

\* The longest word of the inputs of determinePartitionSizes.
MaxLen == 2
\* The longest corpus of the inputs of determinePartitionSizes.
MaxCorpus == 2
\* The largest count of a histogram handed directly to findCostOfPartitioning.
MaxCount == 3
\* The longest list of allowed guesses main ranks.
MaxGuesses == 6

\* The letters of the words handed to determinePartitionSizes.
Alphabet == {"a", "b"}

\* The words of up to MaxLen letters.
Words == UNION {[1..n -> Alphabet] : n \in 1..MaxLen}

\* The sequences of up to n elements of S.
SeqsUpTo(S, n) == UNION {[1..m -> S] : m \in 0..n}

----------------------------------------------------------------------------
(* The state model (data.State, used by name in solver.py). *)

UNKNOWN == "UNKNOWN"
ABSENT == "ABSENT"
PRESENT == "PRESENT"
CORRECT == "CORRECT"

Range(s) == {s[i] : i \in 1..Len(s)}

\* The sum of f over the finite set S.
RECURSIVE SumOver(_, _)
SumOver(f, S) ==
    IF S = {} THEN 0
    ELSE LET x == CHOOSE y \in S : TRUE
         IN  f[x] + SumOver(f, S \ {x})

\* sum(partitions.values())
SumValues(partitions) == SumOver(partitions, DOMAIN partitions)

\* defaultdict(int): the histogram without keys.
EmptyHistogram == [k \in {} |-> 0]

----------------------------------------------------------------------------
(* determinePartitionSizes, lines 63-91. *)

\* A mutant: the final `states[idx] = State.ABSENT` is missing.
LetterStateNoAbsent(guess, word, i) ==
    IF guess[i] = word[i] THEN CORRECT
    ELSE IF word[i] \in Range(guess) THEN PRESENT
    ELSE UNKNOWN

\* A mutant: the membership test comes before the test for the same position.
LetterStatePresentFirst(guess, word, i) ==
    IF word[i] \in Range(guess) THEN PRESENT
    ELSE IF guess[i] = word[i] THEN CORRECT
    ELSE ABSENT

\* The body of the inner loop at position i (1-based) of `word`: `letter` is
\* word[i], a letter of the corpus word, compared with wordGuess[i] and then
\* tested for membership in wordGuess.
LetterState(guess, word, i) ==
    IF guess[i] = word[i] THEN CORRECT
    ELSE IF word[i] \in Range(guess) THEN PRESENT
    ELSE ABSENT

\* A mutant: `partitionSizes[key] = 1` in place of `+= 1`.
IncrementOverwrite(partitions, key) ==
    IF key \in DOMAIN partitions
    THEN [partitions EXCEPT ![key] = 1]
    ELSE [k \in DOMAIN partitions \cup {key} |->
            IF k = key THEN 1 ELSE partitions[k]]

\* partitionSizes[tuple(states)] += 1 on a defaultdict(int).
Increment(partitions, key) ==
    IF key \in DOMAIN partitions
    THEN [partitions EXCEPT ![key] = @ + 1]
    ELSE [k \in DOMAIN partitions \cup {key} |->
            IF k = key THEN 1 ELSE partitions[k]]

\* The word the outer loop is at.
CurrentWord == wordList[wi]

\* for word in wordList: states = [State.UNKNOWN]*len(word)
NextWord ==
    /\ pc = "for_word"
    /\ wi < Len(wordList)
    /\ wi' = wi + 1
    /\ states' = [i \in 1..Len(wordList[wi + 1]) |-> UNKNOWN]
    /\ idx' = 0
    /\ pc' = "for_letter"
    /\ UNCHANGED <<wordGuess, wordList, partitionSizes, cost>>
    /\ UNCHANGED mainVars

\* One iteration of `for idx, letter in enumerate(word)`; wordGuess[idx]
\* raises IndexError when the word is longer than the guess.
LetterStep ==
    /\ pc = "for_letter"
    /\ idx < Len(CurrentWord)
    /\ IF idx + 1 > Len(wordGuess)
       THEN /\ pc' = "IndexError"
            /\ UNCHANGED <<idx, states>>
       ELSE /\ states' = [states EXCEPT ![idx + 1] =
                            LetterState(wordGuess, CurrentWord, idx + 1)]
            /\ idx' = idx + 1
            /\ pc' = "for_letter"
    /\ UNCHANGED <<wordGuess, wordList, wi, partitionSizes, cost>>
    /\ UNCHANGED mainVars

\* partitionSizes[tuple(states)] += 1, after the inner loop.
StoreKey ==
    /\ pc = "for_letter"
    /\ idx = Len(CurrentWord)
    /\ partitionSizes' = Increment(partitionSizes, states)
    /\ pc' = "for_word"
    /\ UNCHANGED <<wordGuess, wordList, wi, idx, states, cost>>
    /\ UNCHANGED mainVars

\* assert (sum(partitionSizes.values()) == len(wordList)); return partitionSizes
AssertSum ==
    /\ pc = "for_word"
    /\ wi = Len(wordList)
    /\ pc' = IF SumValues(partitionSizes) = Len(wordList)
             THEN "cost" ELSE "AssertionError"
    /\ UNCHANGED partitionVars
    /\ UNCHANGED mainVars

----------------------------------------------------------------------------
(* findCostOfPartitioning, lines 38-61. *)

\* A mutant: upperBound = numWords, the square forgotten.
UpperBoundLinear(partitions) == SumValues(partitions)

\* numWords = sum(partitions.values()); upperBound = numWords**2
UpperBound(partitions) == SumValues(partitions) * SumValues(partitions)

\* A mutant: val*2 in place of val**2.
UnnormalizedCostDoubled(partitions) ==
    SumOver([k \in DOMAIN partitions |-> partitions[k] * 2], DOMAIN partitions)

\* unnormalizedCost = sum([val**2 for val in partitions.values()])
UnnormalizedCost(partitions) ==
    SumOver([k \in DOMAIN partitions |-> partitions[k] * partitions[k]],
            DOMAIN partitions)

\* return float(unnormalizedCost)/upperBound: the quotient as a pair, or
\* ZeroDivisionError when the histogram is empty.
findCostOfPartitioning(partitions) ==
    IF UpperBound(partitions) = 0
    THEN [error |-> "ZeroDivisionError", value |-> <<>>]
    ELSE [error |-> "",
          value |-> <<UnnormalizedCost(partitions), UpperBound(partitions)>>]

\* The call of findCostOfPartitioning on the histogram.
FindCost ==
    /\ pc = "cost"
    /\ LET r == findCostOfPartitioning(partitionSizes)
       IN  IF r.error # ""
           THEN /\ pc' = r.error
                /\ UNCHANGED cost
           ELSE /\ cost' = r.value
                /\ pc' = "done"
    /\ UNCHANGED <<wordGuess, wordList, wi, idx, states, partitionSizes>>
    /\ UNCHANGED mainVars

----------------------------------------------------------------------------
(* determinePartitionSizes as one function of its arguments, as main calls *)
(* it: the loops above, run to their end.                                  *)

\* The states list after the inner loop, for a word no longer than the guess.
Response(guess, word) == [i \in 1..Len(word) |-> LetterState(guess, word, i)]

\* The outer loop from word k on, then the assertion and the return.
RECURSIVE PartitionFrom(_, _, _, _)
PartitionFrom(guess, list, k, partitions) ==
    IF k > Len(list)
    THEN [error |-> IF SumValues(partitions) = Len(list)
                    THEN "" ELSE "AssertionError",
          value |-> partitions]
    ELSE IF Len(list[k]) > Len(guess)
    THEN [error |-> "IndexError", value |-> partitions]
    ELSE PartitionFrom(guess, list, k + 1,
                       Increment(partitions, Response(guess, list[k])))

determinePartitionSizes(guess, list) ==
    PartitionFrom(guess, list, 1, EmptyHistogram)

----------------------------------------------------------------------------
(* The specification of one evaluation,                                    *)
(* findCostOfPartitioning(determinePartitionSizes(wordGuess, wordList)).   *)

\* The inputs of the end-to-end scenarios: 'abcde' against ['abcde'],
\* 'aabb' against ['aabb', 'bbaa'], 'roars' against ['radar'].
Scenarios ==
    { [guess |-> <<"a", "b", "c", "d", "e">>,
       corpus |-> << <<"a", "b", "c", "d", "e">> >>],
      [guess |-> <<"a", "a", "b", "b">>,
       corpus |-> << <<"a", "a", "b", "b">>, <<"b", "b", "a", "a">> >>],
      [guess |-> <<"r", "o", "a", "r", "s">>,
       corpus |-> << <<"r", "a", "d", "a", "r">> >>] }

\* The inputs of determinePartitionSizes: every guess of Words against every
\* corpus of up to MaxCorpus words of Words (repeated words, words shorter
\* and longer than the guess and the empty corpus included), and the scenarios.
PartitionInputs ==
    {[guess |-> g, corpus |-> c] : g \in Words, c \in SeqsUpTo(Words, MaxCorpus)}
        \cup Scenarios

\* main's variables, unused by this specification.
MainIdle ==
    /\ ALLOWED_GUESSES = <<>>
    /\ WORD_LIST = <<>>
    /\ gi = 0
    /\ guesses_heap = <<>>
    /\ bestK = <<>>
    /\ worstK = <<>>
    /\ invocation = "none"
    /\ firstBestK = <<>>
    /\ firstWorstK = <<>>

\* determinePartitionSizes is entered: partitionSizes = defaultdict(int).
Init ==
    /\ \E in \in PartitionInputs :
          /\ wordGuess = in.guess
          /\ wordList = in.corpus
    /\ wi = 0
    /\ idx = 0
    /\ states = <<>>
    /\ partitionSizes = EmptyHistogram
    /\ cost = <<>>
    /\ pc = "for_word"
    /\ MainIdle

Next ==
    \/ NextWord
    \/ LetterStep
    \/ StoreKey
    \/ AssertSum
    \/ FindCost

Spec == Init /\ [][Next]_vars

----------------------------------------------------------------------------
(* The specification of findCostOfPartitioning alone, on any histogram.    *)

\* The keys of the histograms handed to findCostOfPartitioning.
CostKeys == {<<ABSENT>>, <<PRESENT>>, <<CORRECT>>}

\* The function f without the keys it maps to 0.
Positive(f) == [k \in {x \in DOMAIN f : f[x] > 0} |-> f[k]]

\* Every histogram over CostKeys with counts up to MaxCount, the empty one included.
Histograms == {Positive(f) : f \in [CostKeys -> 0..MaxCount]}

InitCost ==
    /\ partitionSizes \in Histograms
    /\ wordGuess = <<>>
    /\ wordList = <<>>
    /\ wi = 0
    /\ idx = 0
    /\ states = <<>>
    /\ cost = <<>>
    /\ pc = "cost"
    /\ MainIdle

NextCost == FindCost

SpecCost == InitCost /\ [][NextCost]_vars

----------------------------------------------------------------------------
(* main, lines 24-35. *)

\* nsmallest(5, ...) and nlargest(5, ...)
K == 5

\* float == float and float < float on two quotients.
CostEq(c, d) == c[1] * d[2] = d[1] * c[2]
CostLess(c, d) == c[1] * d[2] < d[1] * c[2]

\* The order of the letters in a str comparison.
LetterOrd(l) ==
    CASE l = "a" -> 1 [] l = "b" -> 2 [] l = "c" -> 3 [] l = "d" -> 4
      [] OTHER -> 5

\* str < str: the first differing letter decides, a proper prefix is smaller.
RECURSIVE StrLessFrom(_, _, _)
StrLessFrom(s, t, i) ==
    IF i > Len(t) THEN FALSE
    ELSE IF i > Len(s) THEN TRUE
    ELSE IF s[i] # t[i] THEN LetterOrd(s[i]) < LetterOrd(t[i])
    ELSE StrLessFrom(s, t, i + 1)

StrLess(s, t) == StrLessFrom(s, t, 1)

\* (cost, guess) < (cost, guess): the tuples compare by cost, then by guess.
TupleLess(p, q) ==
    \/ CostLess(p.cost, q.cost)
    \/ CostEq(p.cost, q.cost) /\ StrLess(p.guess, q.guess)

\* heapq._siftdown(heap, 0, pos) with newitem held out (positions 1-based:
\* the parent of pos is pos \div 2).
RECURSIVE SiftDown(_, _, _)
SiftDown(heap, pos, newitem) ==
    IF pos > 1 /\ TupleLess(newitem, heap[pos \div 2])
    THEN SiftDown([heap EXCEPT ![pos] = heap[pos \div 2]], pos \div 2, newitem)
    ELSE [heap EXCEPT ![pos] = newitem]

\* heappush(guesses_heap, (cost, guess))
heappush(heap, item) == SiftDown(Append(heap, item), Len(heap) + 1, item)

\* The first n elements of s.
Take(s, n) == SubSeq(s, 1, IF n < Len(s) THEN n ELSE Len(s))

\* key(p) < key(q) under sorted's order: by cost, descending when reverse.
KeyBefore(p, q, reverse) ==
    IF reverse THEN CostLess(q.cost, p.cost) ELSE CostLess(p.cost, q.cost)

\* x put into the sorted sequence s from position i on, behind every
\* element whose key is not behind its own.
RECURSIVE InsertFrom(_, _, _, _)
InsertFrom(s, x, i, reverse) ==
    IF i > Len(s) THEN Append(s, x)
    ELSE IF KeyBefore(x, s[i], reverse)
    THEN SubSeq(s, 1, i - 1) \o <<x>> \o SubSeq(s, i, Len(s))
    ELSE InsertFrom(s, x, i + 1, reverse)

\* sorted(s, key=lambda tup: tup[0], reverse=reverse) from element i on, acc
\* holding the elements before it: a stable sort, equal keys keep the order
\* they have in s (also when reverse).
RECURSIVE SortedFrom(_, _, _, _)
SortedFrom(s, i, acc, reverse) ==
    IF i > Len(s) THEN acc
    ELSE SortedFrom(s, i + 1, InsertFrom(acc, s[i], 1, reverse), reverse)

sorted(s, reverse) == SortedFrom(s, 1, <<>>, reverse)

\* s[::-1]
Reversed(s) == [i \in 1..Len(s) |-> s[Len(s) + 1 - i]]

\* A mutant: the heap is taken for a sorted list, heap[:n].
nsmallestUnsorted(n, heap) == Take(heap, n)

\* nsmallest(n, heap, key=lambda tup: tup[0]): what heapq documents and
\* computes, sorted(heap, key=key)[:n].
nsmallest(n, heap) == Take(sorted(heap, FALSE), n)

\* A mutant: sorted(heap, key=key)[::-1][:n], equal costs come out reversed.
nlargestUnstable(n, heap) == Take(Reversed(sorted(heap, FALSE)), n)

\* nlargest(n, heap, key=lambda tup: tup[0]): what heapq documents and
\* computes, sorted(heap, key=key, reverse=True)[:n].
nlargest(n, heap) == Take(sorted(heap, TRUE), n)

\* A mutant: guesses_heap outlives the invocation (a module-level list).
LeakedHeap == guesses_heap

\* guesses_heap = []
FreshHeap == <<>>

\* main is entered.
MainStart ==
    /\ pc = "main"
    /\ guesses_heap' = FreshHeap
    /\ gi' = 0
    /\ pc' = "for_guess"
    /\ UNCHANGED <<ALLOWED_GUESSES, WORD_LIST, bestK, worstK, invocation,
                   firstBestK, firstWorstK>>
    /\ UNCHANGED partitionVars

\* cost = findCostOfPartitioning(determinePartitionSizes(guess, WORD_LIST))
GuessCost(guess) ==
    LET parts == determinePartitionSizes(guess, WORD_LIST)
    IN  IF parts.error # "" THEN parts
        ELSE findCostOfPartitioning(parts.value)

\* One iteration of `for guess in progressbar(ALLOWED_GUESSES)`: progressbar
\* yields the guesses in order, each once.
MainIterate ==
    /\ pc = "for_guess"
    /\ gi < Len(ALLOWED_GUESSES)
    /\ LET guess == ALLOWED_GUESSES[gi + 1]
           c == GuessCost(guess)
       IN  IF c.error # ""
           THEN /\ pc' = c.error
                /\ UNCHANGED <<gi, guesses_heap>>
           ELSE /\ guesses_heap' =
                      heappush(guesses_heap, [cost |-> c.value, guess |-> guess])
                /\ gi' = gi + 1
                /\ pc' = "for_guess"
    /\ UNCHANGED <<ALLOWED_GUESSES, WORD_LIST, bestK, worstK, invocation,
                   firstBestK, firstWorstK>>
    /\ UNCHANGED partitionVars

\* print('Best guesses:') and the pairs of nsmallest(5, guesses_heap, key=...)
PrintBest ==
    /\ pc = "for_guess"
    /\ gi = Len(ALLOWED_GUESSES)
    /\ bestK' = nsmallest(K, guesses_heap)
    /\ pc' = "print_worst"
    /\ UNCHANGED <<ALLOWED_GUESSES, WORD_LIST, gi, guesses_heap, worstK,
                   invocation, firstBestK, firstWorstK>>
    /\ UNCHANGED partitionVars

\* print('Worst guesses:') and the pairs of nlargest(5, guesses_heap, key=...)
PrintWorst ==
    /\ pc = "print_worst"
    /\ worstK' = nlargest(K, guesses_heap)
    /\ pc' = "returned"
    /\ UNCHANGED <<ALLOWED_GUESSES, WORD_LIST, gi, guesses_heap, bestK,
                   invocation, firstBestK, firstWorstK>>
    /\ UNCHANGED partitionVars

\* main is invoked a second time, on the same lists.
Reinvoke ==
    /\ pc = "returned"
    /\ invocation = "first"
    /\ invocation' = "second"
    /\ firstBestK' = bestK
    /\ firstWorstK' = worstK
    /\ pc' = "main"
    /\ UNCHANGED <<ALLOWED_GUESSES, WORD_LIST, gi, guesses_heap, bestK, worstK>>
    /\ UNCHANGED partitionVars

\* The guesses main ranks: two that split MainCorpora alike and compare
\* 'ab' < 'ba' as strings, and two with letters the corpora lack.
MainGuessPool == {<<"a", "b">>, <<"b", "a">>, <<"c", "c">>, <<"d", "d">>}

\* The corpora main ranks against, the empty one included.
MainCorpora ==
    { <<>>,
      << <<"a", "b">>, <<"b", "a">> >>,
      << <<"a", "b">>, <<"a", "c">>, <<"b", "a">> >> }

InitMain ==
    /\ ALLOWED_GUESSES \in SeqsUpTo(MainGuessPool, MaxGuesses)
    /\ WORD_LIST \in MainCorpora
    /\ gi = 0
    /\ guesses_heap = <<>>
    /\ bestK = <<>>
    /\ worstK = <<>>
    /\ invocation = "first"
    /\ firstBestK = <<>>
    /\ firstWorstK = <<>>
    /\ wordGuess = <<>>
    /\ wordList = <<>>
    /\ wi = 0
    /\ idx = 0
    /\ states = <<>>
    /\ partitionSizes = EmptyHistogram
    /\ cost = <<>>
    /\ pc = "main"

NextMain ==
    \/ MainStart
    \/ MainIterate
    \/ PrintBest
    \/ PrintWorst
    \/ Reinvoke

SpecMain == InitMain /\ [][NextMain]_vars

----------------------------------------------------------------------------
(* Properties of one evaluation (Spec). *)

\* The states a finished response is made of.
Finished == {ABSENT, PRESENT, CORRECT}

\* Every word of the corpus has as many letters as the guess.
WellFormed == \A k \in 1..Len(wordList) : Len(wordList[k]) = Len(wordGuess)

\* The inner loop has visited every letter of the current word.
ResponseComplete == pc = "for_letter" /\ idx = Len(CurrentWord)

\* The response made of n times CORRECT.
AllCorrect(n) == [i \in 1..n |-> CORRECT]

\* The stepwise loops and the function main calls compute the same histogram.
PartitionAgrees ==
    pc \in {"cost", "done", "ZeroDivisionError"} =>
        LET r == determinePartitionSizes(wordGuess, wordList)
        IN  r.error = "" /\ r.value = partitionSizes

\* C1: for a guess and a candidate of equal length, the state at every
\* position i the inner loop has visited is CORRECT if candidate[i] = guess[i],
\* otherwise PRESENT if the guess letter guess[i] occurs in the candidate,
\* otherwise ABSENT.
C1_StateDescribesGuessLetter ==
    (pc = "for_letter" /\ Len(CurrentWord) = Len(wordGuess)) =>
        \A i \in 1..idx :
            states[i] =
                IF CurrentWord[i] = wordGuess[i] THEN CORRECT
                ELSE IF wordGuess[i] \in Range(CurrentWord) THEN PRESENT
                ELSE ABSENT

\* C2: the histogram determinePartitionSizes returns has values summing to
\* len(wordList): the assertion never fails, between words the values sum to
\* the number of words taken, and when no word is longer than the guess the
\* function returns (no IndexError either).
C2_PartitionConservation ==
    /\ pc # "AssertionError"
    /\ pc = "for_word" => SumValues(partitionSizes) = wi
    /\ pc \in {"cost", "done", "ZeroDivisionError"} =>
          SumValues(partitionSizes) = Len(wordList)
    /\ (\A k \in 1..Len(wordList) : Len(wordList[k]) <= Len(wordGuess)) =>
          pc # "IndexError"

\* C2's case: a corpus that repeats a word, shorter than the guess, has been
\* partitioned and the function has returned.
C2_Witness ==
    /\ pc = "done"
    /\ Len(wordList) = 2
    /\ wordList[1] = wordList[2]
    /\ Len(wordList[1]) < Len(wordGuess)
    /\ \E key \in DOMAIN partitionSizes : partitionSizes[key] = 2

\* C5: a word classified against itself is CORRECT at every position visited,
\* and the corpus [w] partitioned by the guess w gives {all-CORRECT: 1}, cost 1.
C5_SelfClassification ==
    /\ (pc = "for_letter" /\ CurrentWord = wordGuess) =>
          \A i \in 1..idx : states[i] = CORRECT
    /\ (pc = "done" /\ wordList = <<wordGuess>>) =>
          /\ DOMAIN partitionSizes = {AllCorrect(Len(wordGuess))}
          /\ partitionSizes[AllCorrect(Len(wordGuess))] = 1
          /\ cost = <<1, 1>>

\* C5's case: 'abcde' against ['abcde'] has been evaluated.
C5_Witness ==
    /\ pc = "done"
    /\ wordGuess = <<"a", "b", "c", "d", "e">>
    /\ wordList = <<wordGuess>>

\* C6: when the guess has the letter x at two positions i # j and the
\* candidate (of the guess's length) has x once, at i, the response is CORRECT
\* at i and PRESENT at j.
C6_DuplicateLetterOverCounted ==
    (ResponseComplete /\ Len(CurrentWord) = Len(wordGuess)) =>
        \A i, j \in 1..Len(wordGuess) :
            ( /\ i # j
              /\ wordGuess[i] = wordGuess[j]
              /\ {k \in 1..Len(CurrentWord) : CurrentWord[k] = wordGuess[i]} = {i} )
            => (states[i] = CORRECT /\ states[j] = PRESENT)

C8_EvenSplitCost ==
    /\ (pc = "done" /\ \A k, l \in DOMAIN partitionSizes :
                          partitionSizes[k] = partitionSizes[l]) =>
          /\ Cardinality(DOMAIN partitionSizes) * cost[1] = cost[2]
          /\ cost[2] = Len(wordList) * Len(wordList)
    /\ ( /\ pc = "done"
         /\ wordGuess = <<"a", "a", "b", "b">>
         /\ wordList = << <<"a", "a", "b", "b">>, <<"b", "b", "a", "a">> >> ) =>
          /\ partitionSizes =
                 [k \in {AllCorrect(Len(wordGuess)), [i \in 1..Len(wordGuess) |-> PRESENT]} |-> 1]
          /\ cost = <<2, Len(wordList) * Len(wordList)>>

\* C8's case: 'aabb' against ['aabb', 'bbaa'] has been evaluated.
C8_Witness ==
    /\ pc = "done"
    /\ wordGuess = <<"a", "a", "b", "b">>
    /\ Len(wordList) = 2
    /\ Cardinality(DOMAIN partitionSizes) = 2

----------------------------------------------------------------------------
(* Properties of findCostOfPartitioning (SpecCost). *)

\* C3: for a non-empty histogram of positive counts with total N the result
\* is raw/N^2, raw the sum of the squared counts, with 0 < raw <= N^2, and
\* raw = N^2 exactly when the histogram has one key.
C3_CostBounds ==
    pc = "done" =>
        LET N == SumValues(partitionSizes)
            raw == SumOver([k \in DOMAIN partitionSizes |-> partitionSizes[k] ^ 2],
                           DOMAIN partitionSizes)
        IN  /\ cost = <<raw, N ^ 2>>
            /\ 0 < raw
            /\ raw <= N ^ 2
            /\ (raw = N ^ 2) <=> (Cardinality(DOMAIN partitionSizes) = 1)

\* C3's case: the cost of a histogram of several keys, one counted more
\* than once, has been computed.
C3_Witness ==
    /\ pc = "done"
    /\ Cardinality(DOMAIN partitionSizes) >= 2
    /\ \E k \in DOMAIN partitionSizes : partitionSizes[k] >= 2

----------------------------------------------------------------------------
(* Properties of main (SpecMain). *)

\* The bag of the elements of the sequence s.
BagOfSeq(s) ==
    [x \in Range(s) |-> Cardinality({i \in 1..Len(s) : s[i] = x})]

\* The guesses of a sequence of (cost, guess) pairs, in order.
GuessesOf(pairs) == [i \in 1..Len(pairs) |-> pairs[i].guess]

\* The pairs of s whose cost equals c, in the order of s.
WithCost(s, c) ==
    LET Test(x) == CostEq(x.cost, c)
    IN  SelectSeq(s, Test)

\* The loop of main has processed every guess of ALLOWED_GUESSES.
LoopDone == pc \in {"print_worst", "returned"}

\* The smaller of a and b.
Min(a, b) == IF a < b THEN a ELSE b

\* The pairs of guesses_heap that are not in the selection sel.
Unselected(sel) == BagToSet(BagOfSeq(guesses_heap) (-) BagOfSeq(sel))

\* C4: once the loop has processed every guess, guesses_heap holds one pair
\* per allowed guess, with that guess's cost; bestK is min(K, n) of these
\* pairs and no pair left out costs less than one in it; worstK is min(K, n)
\* of them and no pair left out costs more than one in it; K = 5.
C4_BestAndWorstK ==
    /\ LoopDone =>
          /\ BagOfSeq(GuessesOf(guesses_heap)) = BagOfSeq(ALLOWED_GUESSES)
          /\ \A i \in 1..Len(guesses_heap) :
                guesses_heap[i].cost = GuessCost(guesses_heap[i].guess).value
    /\ LoopDone =>
          /\ Len(bestK) = Min(K, Len(ALLOWED_GUESSES))
          /\ BagOfSeq(bestK) \sqsubseteq BagOfSeq(guesses_heap)
          /\ \A u \in Unselected(bestK) : \A i \in 1..Len(bestK) :
                ~CostLess(u.cost, bestK[i].cost)
    /\ pc = "returned" =>
          /\ Len(worstK) = Min(K, Len(ALLOWED_GUESSES))
          /\ BagOfSeq(worstK) \sqsubseteq BagOfSeq(guesses_heap)
          /\ \A u \in Unselected(worstK) : \A i \in 1..Len(worstK) :
                ~CostLess(worstK[i].cost, u.cost)

\* C4's case: more than K guesses of two costs have been ranked, and the heap
\* holds a cheaper pair behind its first K pairs.
C4_Witness ==
    /\ pc = "returned"
    /\ Len(ALLOWED_GUESSES) > K
    /\ Len(bestK) = K
    /\ \E i \in 1..K : \E j \in (K + 1)..Len(guesses_heap) :
          CostLess(guesses_heap[j].cost, guesses_heap[i].cost)
    /\ \E u \in Unselected(worstK) : CostLess(u.cost, worstK[K].cost)

NoRepeatedGuess ==
    \A i, j \in 1..Len(ALLOWED_GUESSES) :
        ALLOWED_GUESSES[i] = ALLOWED_GUESSES[j] => i = j

\* The position of the guess g in ALLOWED_GUESSES.
PositionOf(g) == CHOOSE i \in 1..Len(ALLOWED_GUESSES) : ALLOWED_GUESSES[i] = g

\* Pairs of equal cost stand in sel in the order of their guesses in ALLOWED_GUESSES.
InGuessOrder(sel) ==
    \A p, q \in 1..Len(sel) :
        (p < q /\ CostEq(sel[p].cost, sel[q].cost)) =>
            PositionOf(sel[p].guess) < PositionOf(sel[q].guess)

\* C10 as claimed: of two guesses of equal cost that are both in bestK (or
\* both in worstK), the one earlier in ALLOWED_GUESSES is earlier in the output.
C10_StableInGuessOrder ==
    (pc = "returned" /\ NoRepeatedGuess) =>
        (InGuessOrder(bestK) /\ InGuessOrder(worstK))

\* The pairs of sel of each cost are the first pairs of that cost of guesses_heap.
InHeapOrder(sel) ==
    \A p \in 1..Len(sel) :
        LET mine == WithCost(sel, sel[p].cost)
            heaps == WithCost(guesses_heap, sel[p].cost)
        IN  /\ Len(mine) <= Len(heaps)
            /\ mine = SubSeq(heaps, 1, Len(mine))

\* C10 as amended: ties come out in the order of the heap array, not of
\* ALLOWED_GUESSES: the pairs of one cost in bestK (and in worstK) are the
\* first pairs of that cost of guesses_heap, in the order they have there.
C10_StableInHeapOrder ==
    pc = "returned" => (InHeapOrder(bestK) /\ InHeapOrder(worstK))

\* C10's case: two different guesses of equal cost are both in bestK and in
\* worstK, and heappush has put the later guess in front of the earlier one.
C10_Witness ==
    /\ pc = "returned"
    /\ NoRepeatedGuess
    /\ \E p, q \in 1..Len(bestK) :
          /\ p < q
          /\ CostEq(bestK[p].cost, bestK[q].cost)
          /\ PositionOf(bestK[q].guess) < PositionOf(bestK[p].guess)
    /\ \E p, q \in 1..Len(worstK) :
          /\ p < q
          /\ CostEq(worstK[p].cost, worstK[q].cost)
          /\ worstK[p].guess # worstK[q].guess

====
